---- MODULE Spec2Model ----
(***************************************************************************)
(* A model of the Arkanoid game of src/pages/Index.tsx (the variant with   *)
(* bonuses, lines 1-583).                                                  *)
(*                                                                         *)
(* Numbers.  The program computes with IEEE doubles.  The model computes   *)
(* with fixed-point numbers: every length and velocity is an integer       *)
(* number of 1/SCALE pixels, and a product or quotient that is not a whole *)
(* number of units is rounded to the nearest unit (Round).                 *)
(*                                                                         *)
(* Time.  Ticks (requestAnimationFrame callbacks), input events and timer  *)
(* callbacks are the macrotasks of one JavaScript thread, so each one is   *)
(* an atomic action.  Wall-clock time advances in steps of TimeStep ms     *)
(* between them; a pending setTimeout is the number of ms left until it is *)
(* due (NoTimer when none is pending).                                     *)
(*                                                                         *)
(* React.  score, lives, level, gameState and highScore are React state.   *)
(* The game-loop effect is re-created on every change of them (its         *)
(* dependency list, line 466), so every tick reads their current values.   *)
(***************************************************************************)
EXTENDS Integers, Sequences, FiniteSets, TLC

(***************************************************************************)
(* Program constants (pixels, milliseconds).                               *)
(***************************************************************************)
CANVAS_WIDTH == 800
CANVAS_HEIGHT == 600
PADDLE_WIDTH == 120
BALL_RADIUS == 8
BLOCK_ROWS == 5
BLOCK_COLS == 10
BLOCK_WIDTH == 70
BLOCK_HEIGHT == 25
BLOCK_PADDING == 10
OFFSET_Y == 80
MAX_HEALTH == 3
START_LIVES == 3
SCORE_PER_BLOCK == 100
BALL_START_ABOVE_BOTTOM == 150
PADDLE_ABOVE_BOTTOM == 50
BALL_HOVER_GAP == 5
BONUS_DY == 2
BONUS_HALF == 15
PADDLE_K == 10
SPEED_MS == 5000
WIDE_MS == 8000

(***************************************************************************)
(* Bounds of the model.                                                    *)
(***************************************************************************)
\* wall-clock time advances in steps of TimeStep milliseconds
TimeStep == 4000
\* ticks explored from each initial state
MaxTicks == 5
\* the highest level a session of the model starts a tick in
MaxLevel == 3

(***************************************************************************)
(* Fixed-point arithmetic.                                                 *)
(***************************************************************************)
\* units per pixel
SCALE == 2 * 2 * 2 * 2

U(p) == p * SCALE

Abs(n) == IF n < 0 THEN -n ELSE n

Min(a, b) == IF a < b THEN a ELSE b

Max(a, b) == IF a > b THEN a ELSE b

\* n / d rounded to the nearest integer, halves away from zero (d > 0)
Round(n, d) ==
  IF n >= 0 THEN (2 * n + d) \div (2 * d)
            ELSE -((2 * (-n) + d) \div (2 * d))

\* v * 1.5 and v / 1.5 on a velocity component (lines 202-203, 209-210)
Times15(v) == Round(3 * v, 2)

Over15(v) == Round(2 * v, 3)

\* Math.sqrt on a non-negative number of square units, to the nearest unit
Sqrt(n) ==
  LET r == CHOOSE k \in 0..(n + 1) : k * k <= n /\ (k + 1) * (k + 1) > n
  IN  IF n - r * r > (r + 1) * (r + 1) - n THEN r + 1 ELSE r

\* s * Math.cos(Math.PI / 6), cos(pi/6) = 0.866025...
TimesCos30(s) == Round(s * 866025, 1000000)

\* s * Math.sin(Math.PI / 6), sin(pi/6) = 0.5
TimesSin30(s) == Round(s, 2)

NoTimer == -1

(***************************************************************************)
(* localStorage holds strings: score.toString() and parseInt (lines 67-68, *)
(* 339).  A string of decimal digits is a sequence of digits; the absent   *)
(* key (getItem returns null) is NoEntry.                                  *)
(***************************************************************************)
NoEntry == <<>>

RECURSIVE toString(_)
toString(n) ==
  IF n < 10 THEN <<n>> ELSE Append(toString(n \div 10), n % 10)

RECURSIVE parseInt(_)
parseInt(s) ==
  IF Len(s) = 0 THEN 0
  ELSE 10 * parseInt(SubSeq(s, 1, Len(s) - 1)) + s[Len(s)]

\* useState initialiser of highScore (lines 66-69)
loadHighScore(saved) == IF saved # NoEntry THEN parseInt(saved) ELSE 0

(***************************************************************************)
(* State.  Refs of the component (lines 71-95) and its React state (lines  *)
(* 61-69); stored is localStorage['arkanoid-highscore'].  Two history      *)
(* variables: ticks counts the ticks taken since the initial state (the    *)
(* bound of the exploration), and last records the latest step: its        *)
(* operation and, for a tick or a timer callback, the state it started in. *)
(***************************************************************************)
VARIABLES gameState, score, lives, level, highScore, stored,
          balls, paddle, blocks, bonuses, ballIdCounter,
          speedBoost, speedBoostTimer, wideBoost, wideBoostTimer,
          ballLaunched, ticks, last

vars == <<gameState, score, lives, level, highScore, stored,
          balls, paddle, blocks, bonuses, ballIdCounter,
          speedBoost, speedBoostTimer, wideBoost, wideBoostTimer,
          ballLaunched, ticks, last>>

\* the program state as one record, the argument of the program's functions
G == [gameState |-> gameState, score |-> score, lives |-> lives,
      level |-> level, highScore |-> highScore, stored |-> stored,
      balls |-> balls, paddle |-> paddle, blocks |-> blocks,
      bonuses |-> bonuses, ballIdCounter |-> ballIdCounter,
      speedBoost |-> speedBoost, speedBoostTimer |-> speedBoostTimer,
      wideBoost |-> wideBoost, wideBoostTimer |-> wideBoostTimer,
      ballLaunched |-> ballLaunched]

\* the next state is the record g
Becomes(g) ==
  /\ gameState' = g.gameState /\ score' = g.score /\ lives' = g.lives
  /\ level' = g.level /\ highScore' = g.highScore /\ stored' = g.stored
  /\ balls' = g.balls /\ paddle' = g.paddle /\ blocks' = g.blocks
  /\ bonuses' = g.bonuses /\ ballIdCounter' = g.ballIdCounter
  /\ speedBoost' = g.speedBoost /\ speedBoostTimer' = g.speedBoostTimer
  /\ wideBoost' = g.wideBoost /\ wideBoostTimer' = g.wideBoostTimer
  /\ ballLaunched' = g.ballLaunched

PADDLE_Y == U(CANVAS_HEIGHT - PADDLE_ABOVE_BOTTOM)

PADDLE_CENTERED == U(CANVAS_WIDTH) \div 2 - U(PADDLE_WIDTH) \div 2

\* the ball of useRef (lines 71-78) and of resetBall (lines 144-151)
startBall ==
  [x |-> U(CANVAS_WIDTH) \div 2, y |-> U(CANVAS_HEIGHT - BALL_START_ABOVE_BOTTOM),
   dx |-> 0, dy |-> 0, id |-> 0]

\* the paddle of useRef (lines 80-85); y and height never change
startPaddle == [x |-> PADDLE_CENTERED, width |-> U(PADDLE_WIDTH)]

(***************************************************************************)
(* createBlocks (lines 123-141): the grid in row-major order.  A block is  *)
(* its top-left corner and its health; width, height are the constants.    *)
(***************************************************************************)
blockOffsetX ==
  (U(CANVAS_WIDTH) - BLOCK_COLS * U(BLOCK_WIDTH + BLOCK_PADDING)) \div 2

blockAt(row, col, health) ==
  [x |-> blockOffsetX + col * U(BLOCK_WIDTH + BLOCK_PADDING),
   y |-> U(OFFSET_Y) + row * U(BLOCK_HEIGHT + BLOCK_PADDING),
   health |-> health]

\* createBlocks without the cap of the health
createBlocks_uncapped(levelNum) ==
  [i \in 1..(BLOCK_ROWS * BLOCK_COLS) |->
     blockAt((i - 1) \div BLOCK_COLS, (i - 1) % BLOCK_COLS, levelNum)]

createBlocks(levelNum) ==
  [i \in 1..(BLOCK_ROWS * BLOCK_COLS) |->
     blockAt((i - 1) \div BLOCK_COLS, (i - 1) % BLOCK_COLS,
             Min(levelNum, MAX_HEALTH))]

\* resetBall (lines 143-154)
resetBall(g) ==
  [g EXCEPT !.balls = <<startBall>>, !.ballIdCounter = 1,
            !.ballLaunched = FALSE]

\* clearBonusTimers without its two clearTimeout calls
clearBonusTimers_flagsOnly(g) ==
  [g EXCEPT !.speedBoost = FALSE, !.wideBoost = FALSE,
            !.paddle.width = U(PADDLE_WIDTH)]

\* clearBonusTimers (lines 156-162)
clearBonusTimers(g) ==
  [g EXCEPT !.speedBoostTimer = NoTimer, !.wideBoostTimer = NoTimer,
            !.speedBoost = FALSE, !.wideBoost = FALSE,
            !.paddle.width = U(PADDLE_WIDTH)]

\* 4 + level * 0.5 (lines 168-169), in units
launchSpeed(lv) == U(4) + (lv * SCALE) \div 2

\* launchBall without the test of ballLaunchedRef
launchBall_always(g) ==
  IF Len(g.balls) > 0
  THEN [g EXCEPT !.ballLaunched = TRUE,
                 !.balls = [i \in 1..Len(g.balls) |->
                              [g.balls[i] EXCEPT !.dx = launchSpeed(g.level),
                                                 !.dy = -launchSpeed(g.level)]]]
  ELSE g

\* launchBall (lines 164-172)
launchBall(g) ==
  IF ~g.ballLaunched /\ Len(g.balls) > 0
  THEN [g EXCEPT !.ballLaunched = TRUE,
                 !.balls = [i \in 1..Len(g.balls) |->
                              [g.balls[i] EXCEPT !.dx = launchSpeed(g.level),
                                                 !.dy = -launchSpeed(g.level)]]]
  ELSE g

\* startNewGame without setLevel(1)
startNewGame_keepsLevel(g) ==
  LET g1 == [g EXCEPT !.score = 0, !.lives = START_LIVES,
                      !.blocks = createBlocks(1), !.bonuses = <<>>]
      g2 == clearBonusTimers(resetBall(g1))
  IN  [g2 EXCEPT !.paddle.x = PADDLE_CENTERED,
                 !.paddle.width = U(PADDLE_WIDTH),
                 !.gameState = "playing"]

\* startNewGame (lines 174-185)
startNewGame(g) ==
  LET g1 == [g EXCEPT !.score = 0, !.lives = START_LIVES, !.level = 1,
                      !.blocks = createBlocks(1), !.bonuses = <<>>]
      g2 == clearBonusTimers(resetBall(g1))
  IN  [g2 EXCEPT !.paddle.x = PADDLE_CENTERED,
                 !.paddle.width = U(PADDLE_WIDTH),
                 !.gameState = "playing"]

\* nextLevel (lines 187-196)
nextLevel(g) ==
  LET newLevel == g.level + 1
      g1 == [g EXCEPT !.level = newLevel, !.blocks = createBlocks(newLevel),
                      !.bonuses = <<>>]
      g2 == clearBonusTimers(resetBall(g1))
  IN  [g2 EXCEPT !.paddle.x = PADDLE_CENTERED,
                 !.paddle.width = U(PADDLE_WIDTH)]

(***************************************************************************)
(* applyBonus (lines 198-247) and the two setTimeout callbacks.            *)
(***************************************************************************)
scaleBalls(bs, F(_)) ==
  [i \in 1..Len(bs) |-> [bs[i] EXCEPT !.dx = F(bs[i].dx), !.dy = F(bs[i].dy)]]

\* lines 199-212: the velocities are multiplied, then the timer is replaced
applySpeed(g) ==
  [g EXCEPT !.speedBoost = TRUE,
            !.balls = scaleBalls(g.balls, Times15),
            !.speedBoostTimer = SPEED_MS]

\* applyWide that leaves a pending expiry as it is
applyWide_keepsTimer(g) ==
  [g EXCEPT !.wideBoost = TRUE,
            !.paddle.width = Times15(U(PADDLE_WIDTH)),
            !.wideBoostTimer = IF g.wideBoostTimer = NoTimer THEN WIDE_MS
                               ELSE g.wideBoostTimer]

\* lines 213-220
applyWide(g) ==
  [g EXCEPT !.wideBoost = TRUE,
            !.paddle.width = Times15(U(PADDLE_WIDTH)),
            !.wideBoostTimer = WIDE_MS]

\* applyMulti that pushes the first of the two balls only
applyMulti_one(g) ==
  IF Len(g.balls) = 0 THEN g
  ELSE LET currentBall == g.balls[1]
           speed == Sqrt(currentBall.dx * currentBall.dx
                         + currentBall.dy * currentBall.dy)
           b1 == [x |-> currentBall.x, y |-> currentBall.y,
                  dx |-> TimesSin30(speed), dy |-> -TimesCos30(speed),
                  id |-> g.ballIdCounter]
       IN  [g EXCEPT !.balls = Append(g.balls, b1),
                     !.ballIdCounter = g.ballIdCounter + 1]

\* lines 221-246: two balls at +30 and -30 degrees from straight up
applyMulti(g) ==
  IF Len(g.balls) = 0 THEN g
  ELSE LET currentBall == g.balls[1]
           speed == Sqrt(currentBall.dx * currentBall.dx
                         + currentBall.dy * currentBall.dy)
           b1 == [x |-> currentBall.x, y |-> currentBall.y,
                  dx |-> TimesSin30(speed), dy |-> -TimesCos30(speed),
                  id |-> g.ballIdCounter]
           b2 == [x |-> currentBall.x, y |-> currentBall.y,
                  dx |-> -TimesSin30(speed), dy |-> -TimesCos30(speed),
                  id |-> g.ballIdCounter + 1]
       IN  [g EXCEPT !.balls = g.balls \o <<b1, b2>>,
                     !.ballIdCounter = g.ballIdCounter + 2]

applyBonus(g, type) ==
  CASE type = "speed" -> applySpeed(g)
    [] type = "wide"  -> applyWide(g)
    [] type = "multi" -> applyMulti(g)
    [] OTHER          -> g

\* the callback of lines 206-212
speedExpiry(g) ==
  [g EXCEPT !.speedBoost = FALSE,
            !.balls = scaleBalls(g.balls, Over15),
            !.speedBoostTimer = NoTimer]

\* the callback of lines 217-220
wideExpiry(g) ==
  [g EXCEPT !.wideBoost = FALSE,
            !.paddle.width = U(PADDLE_WIDTH),
            !.wideBoostTimer = NoTimer]

(***************************************************************************)
(* The pointer handlers (lines 256-287).  mouseX is the pointer's x in     *)
(* canvas pixels.                                                          *)
(***************************************************************************)
\* the clamp with the base width in place of the paddle's width
movePaddle_baseWidth(g, mouseX) ==
  [g EXCEPT !.paddle.x =
     Max(0, Min(U(CANVAS_WIDTH) - U(PADDLE_WIDTH),
                U(mouseX) - U(PADDLE_WIDTH) \div 2))]

\* lines 261, 271, 282
movePaddle(g, mouseX) ==
  [g EXCEPT !.paddle.x =
     Max(0, Min(U(CANVAS_WIDTH) - g.paddle.width,
                U(mouseX) - g.paddle.width \div 2))]

\* handleTouchStart (lines 274-283)
handleTouchStart(g, touchX) == movePaddle(launchBall(g), touchX)

(***************************************************************************)
(* gameLoop, the ball pass (lines 300-329).                                *)
(***************************************************************************)
\* moveBall with dy = -dy at the paddle in place of -Math.abs(dy)
moveBall_plainBounce(b, launched, p) ==
  LET b1 == IF ~launched
            THEN [b EXCEPT !.x = p.x + p.width \div 2,
                           !.y = PADDLE_Y - U(BALL_RADIUS) - U(BALL_HOVER_GAP)]
            ELSE [b EXCEPT !.x = b.x + b.dx, !.y = b.y + b.dy]
      b2 == IF b1.x + U(BALL_RADIUS) > U(CANVAS_WIDTH) \/ b1.x - U(BALL_RADIUS) < 0
            THEN [b1 EXCEPT !.dx = -b1.dx] ELSE b1
      b3 == IF b2.y - U(BALL_RADIUS) < 0
            THEN [b2 EXCEPT !.dy = -b2.dy] ELSE b2
  IN  IF /\ b3.y + U(BALL_RADIUS) > PADDLE_Y
         /\ b3.x > p.x
         /\ b3.x < p.x + p.width
      THEN [b3 EXCEPT !.dy = -b3.dy,
                      !.dx = Round(PADDLE_K * SCALE * (b3.x - p.x)
                                   - (PADDLE_K * SCALE * p.width) \div 2,
                                   p.width)]
      ELSE b3

\* lines 301-324 on one ball
moveBall(b, launched, p) ==
  LET b1 == IF ~launched
            THEN [b EXCEPT !.x = p.x + p.width \div 2,
                           !.y = PADDLE_Y - U(BALL_RADIUS) - U(BALL_HOVER_GAP)]
            ELSE [b EXCEPT !.x = b.x + b.dx, !.y = b.y + b.dy]
      b2 == IF b1.x + U(BALL_RADIUS) > U(CANVAS_WIDTH) \/ b1.x - U(BALL_RADIUS) < 0
            THEN [b1 EXCEPT !.dx = -b1.dx] ELSE b1
      b3 == IF b2.y - U(BALL_RADIUS) < 0
            THEN [b2 EXCEPT !.dy = -b2.dy] ELSE b2
  IN  IF /\ b3.y + U(BALL_RADIUS) > PADDLE_Y
         /\ b3.x > p.x
         /\ b3.x < p.x + p.width
      THEN [b3 EXCEPT !.dy = -Abs(b3.dy),
                      \* (hitPos - 0.5) * 10 with hitPos = (x - paddle.x) / width
                      !.dx = Round(PADDLE_K * SCALE * (b3.x - p.x)
                                   - (PADDLE_K * SCALE * p.width) \div 2,
                                   p.width)]
      ELSE b3

\* line 326
fellOut(b) == b.y + U(BALL_RADIUS) > U(CANVAS_HEIGHT)

RemoveAt(s, k) == SubSeq(s, 1, k - 1) \o SubSeq(s, k + 1, Len(s))

\* Array.prototype.forEach over indices 1..n (n is the length when the loop
\* starts) with splice(ballIndex, 1) inside it: an index past the end of the
\* shortened array is skipped, and after a removal the element that moved
\* into the removed slot is not visited.
RECURSIVE ballPass(_, _, _, _, _)
ballPass(k, n, bs, launched, p) ==
  IF k > n THEN bs
  ELSE IF k > Len(bs) THEN ballPass(k + 1, n, bs, launched, p)
  ELSE LET b == moveBall(bs[k], launched, p)
       IN  IF fellOut(b)
           THEN ballPass(k + 1, n, RemoveAt(bs, k), launched, p)
           ELSE ballPass(k + 1, n, [bs EXCEPT ![k] = b], launched, p)

(***************************************************************************)
(* gameLoop, the block collisions (lines 347-384).  rand is Math.random()  *)
(* in thousandths; rs is the sequence of the tick's draws, one for each    *)
(* destroyed block in the order of destruction.                            *)
(***************************************************************************)
BONUS_TYPES ==
  << [type |-> "speed", chance |-> 100],
     [type |-> "wide",  chance |-> 100],
     [type |-> "multi", chance |-> 50] >>

\* the draw compared with the chance of the first type only
pickBonus_first(rand, i, cumulativeChance) ==
  IF rand < BONUS_TYPES[1].chance THEN BONUS_TYPES[1].type ELSE "none"

\* lines 361-377: the first type whose cumulative chance exceeds rand
RECURSIVE pickBonus(_, _, _)
pickBonus(rand, i, cumulativeChance) ==
  IF i > Len(BONUS_TYPES) THEN "none"
  ELSE IF rand < cumulativeChance + BONUS_TYPES[i].chance
       THEN BONUS_TYPES[i].type
       ELSE pickBonus(rand, i + 1, cumulativeChance + BONUS_TYPES[i].chance)

\* lines 349-354
overlaps(ball, block) ==
  /\ ball.x + U(BALL_RADIUS) > block.x
  /\ ball.x - U(BALL_RADIUS) < block.x + U(BLOCK_WIDTH)
  /\ ball.y + U(BALL_RADIUS) > block.y
  /\ ball.y - U(BALL_RADIUS) < block.y + U(BLOCK_HEIGHT)

\* lines 367-374
spawnBonus(block, type) ==
  [x |-> block.x + U(BLOCK_WIDTH) \div 2,
   y |-> block.y + U(BLOCK_HEIGHT) \div 2,
   type |-> type]

\* the award without the level
award_flat(lv) == SCORE_PER_BLOCK

\* line 359
award(lv) == SCORE_PER_BLOCK * lv

\* a block that is never removed
destroyed_never(block) == FALSE

\* health < 0 in place of health <= 0
destroyed_offByOne(block) == block.health < 0

\* line 358, on a block whose health was decremented
destroyed(block) == block.health <= 0

\* The filter of lines 348-383 for one ball.  The callback reads the ball's
\* position, which the pass does not change, so which blocks it hits does
\* not depend on the order; the order decides only which draw and which
\* place in the bonus list a destroyed block gets.  c is the running
\* [ball, kept, score, bonuses, used].
filterBlocks(bl, c, lv, rs) ==
  LET hit(block) == overlaps(c.ball, block)
      \* lines 355-356 on every block hit
      struck == [j \in 1..Len(bl) |->
                   IF hit(bl[j]) THEN [bl[j] EXCEPT !.health = bl[j].health - 1]
                   ELSE bl[j]]
      nHit == Len(SelectSeq(bl, hit))
      alive(block) == ~destroyed(block)
      dead(block) == destroyed(block)
      \* lines 358-380: the destroyed blocks, in the order of the list
      gone == SelectSeq(struck, dead)
      rolled == [k \in 1..Len(gone) |->
                   [block |-> gone[k],
                    type |-> pickBonus(rs[c.used + k], 1, 0)]]
      won(r) == r.type # "none"
      spawned == SelectSeq(rolled, won)
  IN  [ball |-> [c.ball EXCEPT !.dy = IF nHit % 2 = 1 THEN -c.ball.dy
                                       ELSE c.ball.dy],
       kept |-> SelectSeq(struck, alive),
       score |-> c.score + Len(gone) * award(lv),
       bonuses |-> c.bonuses \o [k \in 1..Len(spawned) |->
                                   spawnBonus(spawned[k].block, spawned[k].type)],
       used |-> c.used + Len(gone)]

\* lines 347-384: every ball in turn filters the block list
RECURSIVE collideBalls(_, _, _)
collideBalls(i, g, rs) ==
  IF i > Len(g.balls) THEN g
  ELSE LET c == filterBlocks(g.blocks,
                             [ball |-> g.balls[i], kept |-> <<>>,
                              score |-> g.score, bonuses |-> g.bonuses,
                              used |-> g.used],
                             g.level, rs)
       IN  collideBalls(i + 1,
                        [g EXCEPT !.balls[i] = c.ball, !.blocks = c.kept,
                                  !.score = c.score, !.bonuses = c.bonuses,
                                  !.used = c.used],
                        rs)

(***************************************************************************)
(* gameLoop, the bonuses (lines 386-403): each bonus falls, and is applied *)
(* when it reaches the paddle (the paddle as it is then: an earlier bonus  *)
(* of the same pass may have widened it).                                  *)
(***************************************************************************)
\* the test of lines 389-393 without its two comparisons of x
caught_anyX(bonus, p) == bonus.y + U(BONUS_HALF) > PADDLE_Y

caught(bonus, p) ==
  /\ bonus.y + U(BONUS_HALF) > PADDLE_Y
  /\ bonus.x > p.x
  /\ bonus.x < p.x + p.width

RECURSIVE filterBonuses(_, _, _, _)
filterBonuses(j, bo, kept, g) ==
  IF j > Len(bo) THEN [g EXCEPT !.bonuses = kept]
  ELSE LET bonus == [bo[j] EXCEPT !.y = bo[j].y + U(BONUS_DY)]
       IN  IF caught(bonus, g.paddle)
           THEN filterBonuses(j + 1, bo, kept, applyBonus(g, bonus.type))
           ELSE IF bonus.y > U(CANVAS_HEIGHT)
                THEN filterBonuses(j + 1, bo, kept, g)
                ELSE filterBonuses(j + 1, bo, Append(kept, bonus), g)

(***************************************************************************)
(* gameLoop (lines 294-453) without its drawing.                           *)
(***************************************************************************)
\* the score is stored whatever the high score
beatsHighScore_always(g) == TRUE

\* line 337
beatsHighScore(g) == g.score > g.highScore

\* lines 335-342
gameOver(g) ==
  LET g1 == [g EXCEPT !.gameState = "gameover"]
      g2 == IF beatsHighScore(g)
            THEN [g1 EXCEPT !.highScore = g.score, !.stored = toString(g.score)]
            ELSE g1
  IN  clearBonusTimers(g2)

\* lines 386-407
afterCollisions(g) ==
  LET g1 == filterBonuses(1, g.bonuses, <<>>, g)
  IN  IF Len(g1.blocks) = 0 THEN nextLevel(g1) ELSE g1

\* the state with the count of the random draws used so far in the tick
withUsed(g) ==
  [gameState |-> g.gameState, score |-> g.score, lives |-> g.lives,
   level |-> g.level, highScore |-> g.highScore, stored |-> g.stored,
   balls |-> g.balls, paddle |-> g.paddle, blocks |-> g.blocks,
   bonuses |-> g.bonuses, ballIdCounter |-> g.ballIdCounter,
   speedBoost |-> g.speedBoost, speedBoostTimer |-> g.speedBoostTimer,
   wideBoost |-> g.wideBoost, wideBoostTimer |-> g.wideBoostTimer,
   ballLaunched |-> g.ballLaunched, used |-> 0]

\* a life is lost as soon as a single ball is left
lifeLost_fewer(g) == Len(g.balls) <= 1

\* lines 300-345: the ball pass and the loss of a life
lifeLost(g) == Len(g.balls) = 0

\* afterBalls with newLives < 0 for the newLives <= 0 of line 335
afterBalls_belowZero(g) ==
  LET g1 == [g EXCEPT !.balls =
               ballPass(1, Len(g.balls), g.balls, g.ballLaunched, g.paddle)]
  IN  IF lifeLost(g1)
      THEN LET newLives == g.lives - 1
               g2 == [g1 EXCEPT !.lives = newLives]
           IN  IF newLives < 0 THEN gameOver(g2) ELSE resetBall(g2)
      ELSE g1

\* afterBalls without the resetBall of line 344
afterBalls_noReset(g) ==
  LET g1 == [g EXCEPT !.balls =
               ballPass(1, Len(g.balls), g.balls, g.ballLaunched, g.paddle)]
  IN  IF lifeLost(g1)
      THEN LET newLives == g.lives - 1
               g2 == [g1 EXCEPT !.lives = newLives]
           IN  IF newLives <= 0 THEN gameOver(g2) ELSE g2
      ELSE g1

afterBalls(g) ==
  LET g1 == [g EXCEPT !.balls =
               ballPass(1, Len(g.balls), g.balls, g.ballLaunched, g.paddle)]
  IN  IF lifeLost(g1)
      THEN LET newLives == g.lives - 1
               g2 == [g1 EXCEPT !.lives = newLives]
           IN  IF newLives <= 0 THEN gameOver(g2) ELSE resetBall(g2)
      ELSE g1

\* gameLoop without the return of line 342
gameLoop_noReturn(g, rs) ==
  afterCollisions(collideBalls(1, withUsed(afterBalls(g)), rs))

gameLoop(g, rs) ==
  LET g1 == afterBalls(g)
  IN  IF g1.gameState = "gameover" THEN g1
      ELSE afterCollisions(collideBalls(1, withUsed(g1), rs))

\* the number of Math.random() draws the tick makes from g
noBonus == [i \in 1..(BLOCK_ROWS * BLOCK_COLS) |-> 999]

drawsNeeded(g) ==
  LET g1 == afterBalls(g)
  IN  IF g1.gameState = "gameover" THEN 0
      ELSE collideBalls(1, withUsed(g1), noBonus).used

(***************************************************************************)
(* Inputs of the model.                                                    *)
(***************************************************************************)
\* pointer positions, in canvas pixels
PointerXs == {0, 400, 800}

\* Math.random() in thousandths: each side of every threshold of BONUS_TYPES
Draws == {0, 99, 100, 199, 200, 249, 250, 999}

(***************************************************************************)
(* Initial states.  The state after construction (lines 61-95, with the    *)
(* localStorage entry absent), and sessions in progress: states the game   *)
(* is in after blocks were destroyed, described by Scenes below.           *)
(***************************************************************************)
constructed(saved) ==
  [gameState |-> "menu", score |-> 0, lives |-> START_LIVES, level |-> 1,
   highScore |-> loadHighScore(saved), stored |-> saved,
   balls |-> <<startBall>>, paddle |-> startPaddle, blocks |-> <<>>,
   bonuses |-> <<>>, ballIdCounter |-> 1,
   speedBoost |-> FALSE, speedBoostTimer |-> NoTimer,
   wideBoost |-> FALSE, wideBoostTimer |-> NoTimer,
   ballLaunched |-> FALSE]

(***************************************************************************)
(* Sessions in progress.  A scene is a state of a session at level lv in   *)
(* which all but a few blocks of the bottom row are destroyed:             *)
(*   - the ball was launched after a life loss and is on its first ascent, *)
(*     n ticks before it reaches the bottom row (ascending), or it has     *)
(*     bounced off a bottom-row block and is s ticks below the line it was *)
(*     launched from (descending); its velocity is the launch velocity,    *)
(*     reflected;                                                          *)
(*   - bonuses that destroyed bottom-row blocks spawned are still falling; *)
(*     a bonus spawned k ticks ago is 2k pixels below its block's centre;  *)
(*   - the score is that of all the blocks destroyed since the game began. *)
(***************************************************************************)
bottomRow == BLOCK_ROWS - 1

hoverY == PADDLE_Y - U(BALL_RADIUS) - U(BALL_HOVER_GAP)

\* the ticks a launched ball takes from the hover line to the bottom row
ticksToBlocks(lv) ==
  (hoverY - U(BALL_RADIUS) - (blockAt(bottomRow, 0, 1).y + U(BLOCK_HEIGHT)))
    \div launchSpeed(lv) + 1

\* the ball n ticks before it reaches the bottom row at xHit
ascending(lv, xHit, n) ==
  [x |-> U(xHit) - n * launchSpeed(lv),
   y |-> hoverY - (ticksToBlocks(lv) - n) * launchSpeed(lv),
   dx |-> launchSpeed(lv), dy |-> -launchSpeed(lv), id |-> 0]

\* the ball s ticks below the hover line, on its way down
descending(lv, x, s) ==
  [x |-> U(x), y |-> hoverY + s * launchSpeed(lv),
   dx |-> launchSpeed(lv), dy |-> launchSpeed(lv), id |-> 0]

\* the bonus the bottom-row block of column col spawned k ticks ago
falling(type, col, k) ==
  LET b == spawnBonus(blockAt(bottomRow, col, 1), type)
  IN  [b EXCEPT !.y = b.y + k * U(BONUS_DY)]

\* the score of a game at level lv with left blocks of the level standing
scoreAt(lv, left) ==
  SCORE_PER_BLOCK * BLOCK_ROWS * BLOCK_COLS * ((lv * (lv - 1)) \div 2)
  + award(lv) * (BLOCK_ROWS * BLOCK_COLS - left)

scene(lv, lf, hs, bl, ball, bo) ==
  [gameState |-> "playing", score |-> scoreAt(lv, Len(bl)), lives |-> lf,
   level |-> lv, highScore |-> hs,
   stored |-> IF hs = 0 THEN NoEntry ELSE toString(hs),
   balls |-> <<ball>>, paddle |-> startPaddle, blocks |-> bl,
   bonuses |-> bo, ballIdCounter |-> 1,
   speedBoost |-> FALSE, speedBoostTimer |-> NoTimer,
   wideBoost |-> FALSE, wideBoostTimer |-> NoTimer,
   ballLaunched |-> TRUE]

\* the blocks left: the block of column 7, or those of columns 6 and 7
BlocksLeft(lv) ==
  {<<blockAt(bottomRow, 7, 1)>>}
  \cup {<<blockAt(bottomRow, 6, h), blockAt(bottomRow, 7, h)>> :
          h \in 1..Min(lv, MAX_HEALTH)}

\* the blocks of columns 5, 6 and 7 at health 1
threeLeft ==
  <<blockAt(bottomRow, 5, 1), blockAt(bottomRow, 6, 1), blockAt(bottomRow, 7, 1)>>

\* aimed at the gap between columns 6 and 7, or at column 7
gapAim(lv) == ascending(lv, 555, 3)

blockAim(lv) == ascending(lv, 595, 2)

\* bonuses that reach the paddle line in the next tick and the one after
multiFalls == <<falling("multi", 4, 151)>>

speedsFall == <<falling("speed", 4, 151), falling("speed", 5, 150)>>

wideFalls == <<falling("wide", 9, 151), falling("speed", 5, 150)>>

widesFall == <<falling("wide", 4, 151), falling("wide", 5, 150)>>

\* a bonus that passes the bottom edge in the next tick
lastFall == <<falling("multi", 9, 183)>>

\* the ball is below the blocks left
AscentScenes ==
  UNION {{scene(lv, START_LIVES, 0, bl, ball, <<>>) :
            bl \in BlocksLeft(lv), ball \in {gapAim(lv), blockAim(lv)}}
         \cup {scene(lv, START_LIVES, 0, bl, blockAim(lv), multiFalls) :
                 bl \in BlocksLeft(lv)}
         \cup {scene(lv, START_LIVES, 0, <<blockAt(bottomRow, 7, 1)>>,
                     blockAim(lv), bo) : bo \in {speedsFall, wideFalls}}
         \cup {scene(lv, START_LIVES, 0, threeLeft, gapAim(lv), <<>>)} :
         lv \in 1..MaxLevel}

\* the ball comes down 10 pixels from the right wall
edgeBall(lv) == descending(lv, 790, 9)

\* the ball is about to leave through the bottom, right of the centred
\* paddle; with one life left, the stored high score is below, at or above
\* the score
DescentScenes ==
  UNION {{scene(lv, lh[1], lh[2], <<blockAt(bottomRow, 7, 1)>>,
                descending(lv, 700, 9), <<>>) :
            lh \in {<<2, 0>>, <<1, 0>>, <<1, scoreAt(lv, 1)>>,
                    <<1, scoreAt(lv, 1) + award(lv)>>}}
         \cup {scene(lv, 2, 0, <<blockAt(bottomRow, 7, 1)>>,
                     descending(lv, 700, 9), bo) :
                 bo \in {multiFalls, speedsFall, wideFalls, widesFall,
                         lastFall}}
         \cup {scene(lv, 1, 0, <<blockAt(bottomRow, 7, 1)>>,
                     descending(lv, 700, 9), speedsFall)}
         \cup {scene(lv, 2, 0, <<blockAt(bottomRow, 7, 1)>>,
                     edgeBall(lv), <<>>)} :
         lv \in 1..MaxLevel}

Scenes == AscentScenes \cup DescentScenes

Init ==
  /\ \E g \in {constructed(NoEntry)} \cup Scenes :
       /\ gameState = g.gameState /\ score = g.score /\ lives = g.lives
       /\ level = g.level /\ highScore = g.highScore /\ stored = g.stored
       /\ balls = g.balls /\ paddle = g.paddle /\ blocks = g.blocks
       /\ bonuses = g.bonuses /\ ballIdCounter = g.ballIdCounter
       /\ speedBoost = g.speedBoost /\ speedBoostTimer = g.speedBoostTimer
       /\ wideBoost = g.wideBoost /\ wideBoostTimer = g.wideBoostTimer
       /\ ballLaunched = g.ballLaunched
  /\ ticks = 0
  /\ last = [op |-> "init"]

(***************************************************************************)
(* Actions.                                                                *)
(***************************************************************************)
\* the history of a step that is neither a tick nor a timer callback
Did(op) == last' = [op |-> op]

Input == Did("input")

\* setGameState of the buttons (lines 532, 556, 569)
setGameState(g, phase) == [g EXCEPT !.gameState = phase]

\* START GAME (line 520), shown in the menu
Start ==
  /\ gameState = "menu"
  /\ Becomes(startNewGame(G))
  /\ Did("start") /\ UNCHANGED ticks

\* RETRY (line 550), shown when the game is over
Retry ==
  /\ gameState = "gameover"
  /\ Becomes(startNewGame(G))
  /\ Did("retry") /\ UNCHANGED ticks

\* the MENU button shown on the pause overlay too
Menu_whilePaused ==
  /\ gameState \in {"gameover", "paused"}
  /\ Becomes(setGameState(G, "menu"))
  /\ Input /\ UNCHANGED ticks

\* MENU (line 556)
Menu ==
  /\ gameState = "gameover"
  /\ Becomes(setGameState(G, "menu"))
  /\ Input /\ UNCHANGED ticks

\* the pause button (line 569), shown while playing
Pause ==
  /\ gameState = "playing"
  /\ Becomes(setGameState(G, "paused"))
  /\ Input /\ UNCHANGED ticks

\* RESUME (line 532)
Resume ==
  /\ gameState = "paused"
  /\ Becomes(setGameState(G, "playing"))
  /\ Input /\ UNCHANGED ticks

\* The canvas listeners exist while the effect of line 249 is mounted with
\* gameState = 'playing' (lines 251, 289-292, 457-465).
\* The history of a pointer event is its kind and the pointer's x.
MouseMove ==
  /\ gameState = "playing"
  /\ \E mouseX \in PointerXs :
       /\ Becomes(movePaddle(G, mouseX))
       /\ last' = [op |-> "move", x |-> mouseX]
  /\ UNCHANGED ticks

TouchMove ==
  /\ gameState = "playing"
  /\ \E touchX \in PointerXs :
       /\ Becomes(movePaddle(G, touchX))
       /\ last' = [op |-> "move", x |-> touchX]
  /\ UNCHANGED ticks

TouchStart ==
  /\ gameState = "playing"
  /\ \E touchX \in PointerXs :
       /\ Becomes(handleTouchStart(G, touchX))
       /\ last' = [op |-> "touchstart", x |-> touchX]
  /\ UNCHANGED ticks

\* handleClick (lines 285-287)
Click ==
  /\ gameState = "playing"
  /\ Becomes(launchBall(G))
  /\ Did("click") /\ UNCHANGED ticks

\* One run of gameLoop: the requestAnimationFrame callback, or the call of
\* line 455 when the effect is mounted again.
Tick ==
  /\ gameState = "playing"
  /\ ticks < MaxTicks
  /\ \E rs \in [1..drawsNeeded(G) -> Draws] :
       /\ Becomes(gameLoop(G, rs))
       /\ last' = [op |-> "tick", pre |-> G, rs |-> rs]
  /\ ticks' = ticks + 1

\* the setTimeout callbacks run when due, whatever the phase
SpeedExpire ==
  /\ speedBoostTimer = 0
  /\ Becomes(speedExpiry(G))
  /\ last' = [op |-> "speedExpiry", pre |-> G] /\ UNCHANGED ticks

WideExpire ==
  /\ wideBoostTimer = 0
  /\ Becomes(wideExpiry(G))
  /\ last' = [op |-> "wideExpiry", pre |-> G] /\ UNCHANGED ticks

\* TimeStep ms pass; a timer that is due fires before more time passes
elapse(t) == IF t = NoTimer THEN NoTimer ELSE Max(0, t - TimeStep)

TimePasses ==
  /\ speedBoostTimer # NoTimer \/ wideBoostTimer # NoTimer
  /\ speedBoostTimer # 0 /\ wideBoostTimer # 0
  /\ speedBoostTimer' = elapse(speedBoostTimer)
  /\ wideBoostTimer' = elapse(wideBoostTimer)
  /\ Input
  /\ UNCHANGED <<gameState, score, lives, level, highScore, stored, balls,
                 paddle, blocks, bonuses, ballIdCounter, speedBoost,
                 wideBoost, ballLaunched, ticks>>

\* The page is loaded again: the component is constructed from what
\* localStorage holds, and the timers of the old page are gone.
Reload ==
  /\ Becomes(constructed(stored))
  /\ Did("reload") /\ UNCHANGED ticks

Next ==
  \/ Start \/ Retry \/ Menu \/ Pause \/ Resume
  \/ MouseMove \/ TouchMove \/ TouchStart \/ Click
  \/ Tick \/ SpeedExpire \/ WideExpire \/ TimePasses \/ Reload

Spec == Init /\ [][Next]_vars

(***************************************************************************)
(* What every state of the program satisfies.                              *)
(***************************************************************************)
TypeOK ==
  /\ gameState \in {"menu", "playing", "paused", "gameover"}
  /\ score \in Nat /\ lives \in Int /\ level \in Nat /\ highScore \in Nat
  /\ highScore = loadHighScore(stored)
  /\ speedBoost \in BOOLEAN /\ wideBoost \in BOOLEAN
  /\ speedBoostTimer \in {NoTimer} \cup 0..SPEED_MS
  /\ wideBoostTimer \in {NoTimer} \cup 0..WIDE_MS
  /\ speedBoost <=> speedBoostTimer # NoTimer
  /\ wideBoost <=> wideBoostTimer # NoTimer
  /\ ballLaunched \in BOOLEAN
  /\ \A i \in 1..Len(blocks) : blocks[i].health \in 1..MAX_HEALTH
  /\ \A i, j \in 1..Len(balls) : i # j => balls[i].id # balls[j].id
  /\ \A i \in 1..Len(balls) : balls[i].id < ballIdCounter

(***************************************************************************)
(* Vocabulary of the properties.                                           *)
(***************************************************************************)
ticked == last.op = "tick"

\* no power-up is in effect and no expiry is pending
noModifiers ==
  /\ speedBoostTimer = NoTimer /\ wideBoostTimer = NoTimer
  /\ ~speedBoost /\ ~wideBoost
  /\ paddle.width = 120 * SCALE

\* the 50 cells of the 5 x 10 grid, in pixels
gridCells ==
  {<<(80 * c) * SCALE, (80 + 35 * r) * SCALE>> : r \in 0..4, c \in 0..9}

\* bl is the full grid with every block at health h
fullGrid(bl, h) ==
  /\ Len(bl) = 50
  /\ {<<bl[i].x, bl[i].y>> : i \in 1..Len(bl)} = gridCells
  /\ \A i \in 1..Len(bl) : bl[i].health = h

\* the single ball of a reset: unlaunched, at rest at (400, 450)
oneBallAtRest ==
  /\ Len(balls) = 1 /\ ~ballLaunched
  /\ balls[1].x = 400 * SCALE /\ balls[1].y = 450 * SCALE
  /\ balls[1].dx = 0 /\ balls[1].dy = 0

paddleCentred == paddle.x = 340 * SCALE /\ paddle.width = 120 * SCALE

\* The blocks a tick from g destroys, as indices of the blocks the tick
\* starts with: a block goes when as many balls overlap it, at the places
\* the balls are in after they moved, as it has health.
ballsAt(g) == afterBalls(g).balls

touching(g, j) ==
  {i \in 1..Len(ballsAt(g)) : overlaps(ballsAt(g)[i], g.blocks[j])}

destroyedBy(g) ==
  IF afterBalls(g).gameState = "gameover" THEN {}
  ELSE {j \in 1..Len(g.blocks) : Cardinality(touching(g, j)) >= g.blocks[j].health}

(***************************************************************************)
(* C1.  A speed pickup consumed while a speed boost is active does not     *)
(* multiply the velocities again: as long as the boost stays active and    *)
(* the balls are not reset, a tick leaves the vertical speed |dy| of every *)
(* ball it keeps as it was (reflections only change its sign).             *)
(***************************************************************************)
C1_NoCompounding ==
  [][(/\ last'.op = "tick"
      /\ speedBoost /\ speedBoost'
      /\ ballLaunched /\ ballLaunched')
     => \A i \in 1..Len(balls) : \A j \in 1..Len(balls') :
          balls'[j].id = balls[i].id => Abs(balls'[j].dy) = Abs(balls[i].dy)]_vars

(***************************************************************************)
(* C2.  While the game is paused, up to and including the resume, the      *)
(* balls, the paddle, the blocks, the bonuses, score, lives and level do   *)
(* not change.                                                             *)
(***************************************************************************)
C2_PauseFreezes ==
  [][(gameState = "paused" /\ gameState' \in {"paused", "playing"})
     => UNCHANGED <<balls, paddle, blocks, bonuses, score, lives, level>>]_vars

(***************************************************************************)
(* C3.  The tick that ends the game and every tick that advances the level *)
(* leave no expiry pending, both flags false and the paddle at its base    *)
(* width; and as long as the game is over none is pending, so no callback  *)
(* armed before can run.                                                   *)
(***************************************************************************)
C3_ModifiersReverted ==
  /\ [][((gameState = "playing" /\ gameState' = "gameover")
         \/ (last'.op = "tick" /\ level' = level + 1))
        => noModifiers']_vars
  /\ [](gameState = "gameover" => noModifiers)

\* the game ended in a tick that began with a speed boost pending
C3_Witness ==
  ticked /\ gameState = "gameover" /\ last.pre.speedBoostTimer # NoTimer

(***************************************************************************)
(* C4.  A tick whose collisions leave no block adds 1 to the level and     *)
(* leaves one unlaunched ball at rest at the start position, the paddle    *)
(* centred at base width, no bonus, and the full grid of 50 blocks at      *)
(* health min(new level, 3).                                               *)
(***************************************************************************)
C4_LevelTransition ==
  (ticked /\ gameState # "gameover"
     /\ destroyedBy(last.pre) = 1..Len(last.pre.blocks))
  => /\ level = last.pre.level + 1
     /\ oneBallAtRest
     /\ paddleCentred
     /\ bonuses = <<>>
     /\ fullGrid(blocks, IF level < 3 THEN level ELSE 3)

\* the level advanced past the cap of the health
C4_Witness ==
  /\ ticked /\ destroyedBy(last.pre) = 1..Len(last.pre.blocks)
  /\ level = last.pre.level + 1 /\ level > 3
  /\ last.pre.bonuses # <<>>

(***************************************************************************)
(* C5.  A constructed program is in the menu, and the phase only changes   *)
(* menu -> playing, playing -> paused, paused -> playing,                  *)
(* playing -> gameover, gameover -> playing and gameover -> menu.          *)
(***************************************************************************)
phaseChanges ==
  { <<"menu", "playing">>, <<"playing", "paused">>, <<"paused", "playing">>,
    <<"playing", "gameover">>, <<"gameover", "playing">>,
    <<"gameover", "menu">> }

C5_PhaseMachine ==
  /\ [][(last'.op # "reload" /\ gameState' # gameState)
        => <<gameState, gameState'>> \in phaseChanges]_vars
  /\ [][(gameState # "gameover" /\ gameState' = "gameover")
        => (gameState = "playing" /\ last'.op = "tick")]_vars
  /\ [](last.op = "reload" => gameState = "menu")

\* the menu, reached from a game that was lost
C5_Witness == gameState = "menu" /\ lives = 0 /\ last.op = "input"

(***************************************************************************)
(* C6.  A tick that takes the last life ends the game; it stores the score *)
(* as the high score when the score is above the high score and leaves the *)
(* high score and the stored entry alone otherwise; the high score, in the *)
(* program and in the store, never decreases.                              *)
(***************************************************************************)
C6_HighScore ==
  /\ [](ticked /\ lives < last.pre.lives /\ lives <= 0
        => gameState = "gameover")
  /\ [](ticked /\ gameState = "gameover"
        => /\ lives = 0
           /\ IF last.pre.score > last.pre.highScore
              THEN highScore = last.pre.score
                   /\ loadHighScore(stored) = last.pre.score
              ELSE highScore = last.pre.highScore
                   /\ stored = last.pre.stored)
  /\ [][/\ highScore' >= highScore
        /\ loadHighScore(stored') >= loadHighScore(stored)]_vars

\* the game ended with a score above the stored high score
C6_Witness ==
  /\ ticked /\ gameState = "gameover"
  /\ last.pre.score > last.pre.highScore
  /\ highScore = score /\ score > 0

(***************************************************************************)
(* C7.  After START GAME or RETRY: score 0, 3 lives, level 1, the full     *)
(* grid at health 1, no bonus, one unlaunched ball, no modifier and no     *)
(* timer, the paddle centred at base width, and the phase playing.         *)
(***************************************************************************)
C7_FullReset ==
  last.op \in {"start", "retry"}
  => /\ score = 0 /\ lives = 3 /\ level = 1
     /\ fullGrid(blocks, 1)
     /\ bonuses = <<>>
     /\ oneBallAtRest
     /\ noModifiers
     /\ paddleCentred
     /\ gameState = "playing"

\* a retry after a game that set a high score
C7_Witness == last.op = "retry" /\ highScore > 0 /\ ticks > 0

(***************************************************************************)
(* C8.  A tick at level L that destroys N blocks adds 100 * L * N to the   *)
(* score (N is the decrease of the number of blocks, or all the blocks     *)
(* there were when the level advances); START GAME and RETRY set the score *)
(* to 0; no other step of a session changes it.                            *)
(***************************************************************************)
C8_Score ==
  [][CASE last'.op = "tick" ->
            score' - score
              = 100 * level * (IF level' = level
                               THEN Len(blocks) - Len(blocks')
                               ELSE Len(blocks))
       [] last'.op \in {"start", "retry"} -> score' = 0
       [] last'.op = "reload" -> TRUE
       [] OTHER -> score' = score]_vars

\* two blocks destroyed in one tick above level 1
C8_Witness ==
  /\ ticked /\ last.pre.level >= 2
  /\ score = last.pre.score + 2 * 100 * last.pre.level

(***************************************************************************)
(* C9.  No block of the list has health 0 or less; a tick awards           *)
(* 100 * level once for each block it destroys and spawns at most one      *)
(* bonus for it, however many balls overlap the block; the blocks it       *)
(* leaves are the others, in their order.                                  *)
(***************************************************************************)
C9_DestroyedOnce ==
  /\ \A i \in 1..Len(blocks) : blocks[i].health >= 1
  /\ (ticked /\ gameState # "gameover")
     => LET g == last.pre
            gone == destroyedBy(g)
            m == afterBalls(g)
        IN  /\ score = g.score + 100 * g.level * Cardinality(gone)
            /\ level = g.level =>
                 /\ Len(blocks) = Len(g.blocks) - Cardinality(gone)
                 /\ {<<blocks[i].x, blocks[i].y>> : i \in 1..Len(blocks)}
                    = {<<g.blocks[j].x, g.blocks[j].y>> :
                         j \in (1..Len(g.blocks)) \ gone}
                 /\ Len(bonuses) <= Len(m.bonuses) + Cardinality(gone)

\* three balls overlapped a block of health 2, which was destroyed
C9_Witness ==
  /\ ticked /\ gameState # "gameover"
  /\ \E j \in destroyedBy(last.pre) :
       /\ Cardinality(touching(last.pre, j)) >= 3
       /\ last.pre.blocks[j].health = 2

(***************************************************************************)
(* C10.  Within a level the number of blocks never grows from a tick to    *)
(* the next, and a tick lowers it by the number of blocks it destroys.     *)
(***************************************************************************)
C10_BlockCount ==
  [][(last'.op = "tick" /\ level' = level)
     => /\ Len(blocks') <= Len(blocks)
        /\ Len(blocks) - Len(blocks') = Cardinality(destroyedBy(G))]_vars

\* a tick destroyed one of two blocks
C10_Witness ==
  /\ ticked /\ level = last.pre.level
  /\ Len(last.pre.blocks) = 2 /\ Len(blocks) = 1

(***************************************************************************)
(* Vocabulary of the power-up claims.                                      *)
(***************************************************************************)
\* the bonuses of g that reach the paddle of g in the tick from g: after
\* its fall of 2 pixels the bonus is lower than 15 pixels above the paddle
\* top (y = 550) and its x is strictly inside the paddle
reaching(g) ==
  {j \in 1..Len(g.bonuses) :
     /\ g.bonuses[j].y + 2 * SCALE + 15 * SCALE > 550 * SCALE
     /\ g.bonuses[j].x > g.paddle.x
     /\ g.bonuses[j].x < g.paddle.x + g.paddle.width}

\* the step is a tick that goes on to the bonuses and keeps the level
plainTick ==
  /\ last'.op = "tick"
  /\ gameState' = "playing"
  /\ level' = level

\* the step resets the modifiers: a level advance, the end of the game, a
\* new game, or a new page
resetStep ==
  \/ last'.op \in {"start", "retry", "reload"}
  \/ last'.op = "tick" /\ (level' = level + 1 \/ gameState' = "gameover")

wide == 180 * SCALE

base == 120 * SCALE

(***************************************************************************)
(* C11, as stated.  A wide pickup sets the width to 1.5 * base; once wide, *)
(* the width returns to base at the expiry of the timer and not earlier:   *)
(* on one page, the only step that ends the wide paddle is the expiry      *)
(* callback.                                                               *)
(***************************************************************************)
C11_WideOnlyExpires ==
  [][(paddle.width = wide /\ paddle.width' # wide /\ last'.op # "reload")
     => last'.op = "wideExpiry"]_vars

(***************************************************************************)
(* C11, amended.  A tick that consumes a wide pickup and keeps the level   *)
(* leaves the width at 1.5 * base with the one expiry 8000 ms away, also   *)
(* when an expiry was pending; the time left only goes down with the time  *)
(* that passes; the callback runs when no time is left and sets the width  *)
(* to base; and before that the wide paddle ends only by a reset of the    *)
(* modifiers (level advance, game over, new game), which also cancels the  *)
(* expiry.                                                                 *)
(***************************************************************************)
C11_Wide ==
  /\ [][(plainTick /\ \E j \in reaching(G) : bonuses[j].type = "wide")
        => paddle'.width = wide /\ wideBoost' /\ wideBoostTimer' = 8000]_vars
  /\ [][(paddle.width = wide /\ paddle.width' # wide)
        => /\ paddle'.width = base
           /\ wideBoostTimer' = NoTimer
           /\ \/ last'.op = "wideExpiry" /\ wideBoostTimer = 0
              \/ resetStep]_vars
  /\ [][(wideBoostTimer' # wideBoostTimer)
        => \/ wideBoostTimer' = 8000 /\ last'.op = "tick"
           \/ wideBoostTimer' = NoTimer
           \/ /\ wideBoostTimer # NoTimer
              /\ wideBoostTimer' = Max(0, wideBoostTimer - TimeStep)
              /\ last'.op = "input"]_vars
  /\ [](paddle.width \in {base, wide} /\ (paddle.width = wide <=> wideBoost))

\* a wide pickup was consumed while the paddle was wide and part of the
\* 8000 ms had passed: the expiry is 8000 ms away again
C11_Witness ==
  /\ ticked /\ last.pre.paddle.width = wide
  /\ last.pre.wideBoostTimer \in 0..7999
  /\ \E j \in reaching(last.pre) : last.pre.bonuses[j].type = "wide"
  /\ paddle.width = wide /\ wideBoostTimer = 8000

\* the multi pickups among the bonuses of g that reach the paddle of g
multiReaching(g) == {j \in reaching(g) : g.bonuses[j].type = "multi"}

\* the balls of g that cross the bottom edge (y = 600) in the tick from g:
\* launched balls whose lower edge is below it after their move
crossing(g) ==
  {i \in 1..Len(g.balls) :
     g.ballLaunched /\ g.balls[i].y + g.balls[i].dy + 8 * SCALE > 600 * SCALE}

(***************************************************************************)
(* C12, as stated.  After a multi pickup the number of balls decreases     *)
(* only when a ball crosses the bottom edge: on one page, every step that  *)
(* leaves fewer balls is a tick in which a ball crosses it.                *)
(***************************************************************************)
C12_OnlyBottomLoss ==
  [][(Len(balls') < Len(balls) /\ last'.op # "reload")
     => last'.op = "tick" /\ crossing(G) # {}]_vars

(***************************************************************************)
(* C12, amended.  A tick that keeps the level and the paddle ends with two *)
(* balls more than its ball pass left for each multi pickup it consumes;   *)
(* and a step leaves fewer balls only if it is a tick in which balls cross *)
(* the bottom edge, and then at most that many fewer, or if it resets the  *)
(* balls to one (level advance, new game).                                 *)
(***************************************************************************)
C12_Multi ==
  /\ [][(plainTick /\ paddle' = paddle)
        => Len(balls') = Len(afterBalls(G).balls)
                         + 2 * Cardinality(multiReaching(G))]_vars
  /\ [][(Len(balls') < Len(balls))
        => \/ /\ last'.op = "tick"
              /\ Len(balls') >= Len(balls) - Cardinality(crossing(G))
           \/ resetStep /\ Len(balls') <= 1]_vars

\* a tick consumed a multi pickup: one ball before it, three after it
C12_Witness ==
  /\ ticked /\ level = last.pre.level
  /\ multiReaching(last.pre) # {}
  /\ Len(last.pre.balls) = 1 /\ Len(balls) = 3

(***************************************************************************)
(* Vocabulary of the input claims.                                         *)
(***************************************************************************)
\* the step is a click or a touch start on the canvas: a launch command
launchStep == last'.op \in {"click", "touchstart"}

\* the step resets the balls: a tick that loses the last ball or advances
\* the level, a new game, a new page
ballReset ==
  \/ last'.op \in {"start", "retry", "reload"}
  \/ last'.op = "tick" /\ (lives' < lives \/ level' = level + 1)

(***************************************************************************)
(* C13.  A launch command with the ball unlaunched makes it launched and   *)
(* sets the velocity of every ball to (4 + 0.5 * level, -(4 + 0.5 *        *)
(* level)), leaving the positions; a launch command with the ball launched *)
(* leaves the balls as they are.  Only a launch command launches, and only *)
(* a ball reset makes the ball unlaunched again.                           *)
(***************************************************************************)
C13_Launch ==
  /\ [][launchStep
        => IF ~ballLaunched
           THEN /\ ballLaunched'
                /\ Len(balls') = Len(balls)
                /\ \A i \in 1..Len(balls) :
                     /\ balls'[i].x = balls[i].x /\ balls'[i].y = balls[i].y
                     /\ 2 * balls'[i].dx = (8 + level) * SCALE
                     /\ 2 * balls'[i].dy = -(8 + level) * SCALE
           ELSE balls' = balls /\ ballLaunched']_vars
  /\ [][(~ballLaunched /\ ballLaunched') => launchStep]_vars
  /\ [][(ballLaunched /\ ~ballLaunched') => ballReset]_vars

\* a click on a launched ball that is on its way down: its velocity is not
\* the launch velocity, and stays
C13_Witness ==
  /\ last.op = "click" /\ ballLaunched
  /\ Len(balls) > 0 /\ balls[1].dy > 0

\* the step is a pointer or touch position input; last'.x is the position
positionStep == last'.op \in {"move", "touchstart"}

\* v clamped into [lo, hi]
clamped(v, lo, hi) == IF v < lo THEN lo ELSE IF v > hi THEN hi ELSE v

(***************************************************************************)
(* C14.  Every pointer or touch position input puts the paddle's centre at *)
(* the position, clamped: paddle x becomes position - width / 2 clamped    *)
(* into [0, 800 - width] with the width the paddle has then; the width is  *)
(* not changed (the paddle's y is the constant 550).                       *)
(***************************************************************************)
C14_PaddleClamp ==
  [][positionStep
     => /\ paddle'.width = paddle.width
        /\ 2 * paddle'.x = clamped(2 * last'.x * SCALE - paddle.width,
                                   0, 2 * (800 * SCALE - paddle.width))]_vars

\* a position input at the right edge while the paddle is wide: x = 620
C14_Witness ==
  /\ last.op \in {"move", "touchstart"} /\ last.x = 800
  /\ paddle.width = wide /\ paddle.x = 620 * SCALE

(***************************************************************************)
(* Vocabulary of the tick claims.                                          *)
(***************************************************************************)
\* the balls of g that the ball pass of the tick from g leaves
passed(g) == ballPass(1, Len(g.balls), g.balls, g.ballLaunched, g.paddle)

(***************************************************************************)
(* C15.  A tick takes exactly one life if its ball pass removes every      *)
(* ball, and none otherwise: when a ball is lost and another remains the   *)
(* lives stay.  No other step takes a life, and lives go up only by start  *)
(* or retry (or a new page), to 3.                                         *)
(***************************************************************************)
C15_Lives ==
  /\ [][last'.op = "tick"
        => /\ lives' = IF passed(G) = <<>> THEN lives - 1 ELSE lives
           /\ (\E i \in 1..Len(balls) : i \notin crossing(G)) => lives' = lives]_vars
  /\ [][lives' < lives => last'.op = "tick"]_vars
  /\ [][lives' > lives
        => last'.op \in {"start", "retry", "reload"} /\ lives' = 3]_vars

\* a tick lost one of three balls and kept the lives
C15_Witness ==
  /\ ticked /\ Len(last.pre.balls) = 3 /\ Len(balls) = 2
  /\ crossing(last.pre) # {}
  /\ lives = last.pre.lives /\ level = last.pre.level

\* the bonus kind of a draw r in thousandths: speed below 0.10, wide from
\* 0.10 and below 0.20, multi from 0.20 and below 0.25, none from 0.25
kindOf(r) ==
  IF r < 100 THEN "speed"
  ELSE IF r < 200 THEN "wide"
  ELSE IF r < 250 THEN "multi"
  ELSE "none"

\* the k-th smallest element of the set S of numbers
RECURSIVE kth(_, _)
kth(S, k) ==
  LET m == CHOOSE x \in S : \A y \in S : x <= y
  IN  IF k = 1 THEN m ELSE kth(S \ {m}, k - 1)

\* the bonuses the draws rs give the blocks the tick from g destroys, in
\* the order of the block list, as they are at the end of the tick: at the
\* block's centre (35, 12.5 from its corner), fallen by 2 pixels
expected(g, rs) ==
  LET D == destroyedBy(g)
  IN  [k \in 1..Len(rs) |->
         LET block == g.blocks[kth(D, k)]
         IN  [x |-> block.x + 35 * SCALE,
              y |-> block.y + (25 * SCALE) \div 2 + 2 * SCALE,
              type |-> kindOf(rs[k])]]

isBonus(b) == b.type # "none"

(***************************************************************************)
(* C16.  A tick makes one draw for each block it destroys.  In a tick that *)
(* keeps the level and has one ball after its ball pass, the bonuses added *)
(* to the list are, in the order of the destroyed blocks, one bonus for    *)
(* each block whose draw r is below 0.25: at the block's centre, of kind   *)
(* speed if r < 0.10, wide if 0.10 <= r < 0.20, multi if 0.20 <= r < 0.25; *)
(* a block whose draw is 0.25 or more adds none.                           *)
(***************************************************************************)
C16_BonusSpawn ==
  [][last'.op = "tick"
     => /\ Len(last'.rs) = Cardinality(destroyedBy(G))
        /\ (plainTick /\ Len(last'.rs) > 0 /\ Len(ballsAt(G)) = 1)
           => LET new == SelectSeq(expected(G, last'.rs), isBonus)
                  old == Len(bonuses') - Len(new)
              IN  /\ old >= 0 /\ old <= Len(bonuses)
                  /\ SubSeq(bonuses', old + 1, Len(bonuses')) = new
                  /\ \A j \in 1..old : \E i \in 1..Len(bonuses) :
                       /\ bonuses'[j].x = bonuses[i].x
                       /\ bonuses'[j].y = bonuses[i].y + 2 * SCALE]_vars

\* a tick destroyed two blocks; the draw of the first was 0.25 or more and
\* gave no bonus, the draw of the second was 0.249 and gave a multi
C16_Witness ==
  /\ ticked /\ level = last.pre.level /\ gameState = "playing"
  /\ Len(last.rs) = 2 /\ last.rs[1] = 250 /\ last.rs[2] = 249
  /\ Len(bonuses) = 1 /\ bonuses[1].type = "multi"
  /\ bonuses[1].x = (80 * 7 + 35) * SCALE

(***************************************************************************)
(* C17.  The tick that ends the game does nothing after its ball pass: the *)
(* blocks, the score, the bonuses and the level are as before the tick.    *)
(* From then on, until start or retry (or a new page), no tick runs and    *)
(* balls, paddle, blocks, bonuses, score, lives and level stay as they     *)
(* are.                                                                    *)
(***************************************************************************)
C17_GameOverStops ==
  /\ [][(last'.op = "tick" /\ gameState' = "gameover")
        => UNCHANGED <<blocks, score, bonuses, level>>]_vars
  /\ [][(gameState = "gameover" /\ last'.op \notin {"start", "retry", "reload"})
        => /\ last'.op # "tick"
           /\ gameState' \in {"gameover", "menu"}
           /\ UNCHANGED <<balls, paddle, blocks, bonuses, score, lives,
                          level>>]_vars
  /\ [][(gameState = "menu" /\ last'.op \notin {"start", "reload"})
        => UNCHANGED <<balls, paddle, blocks, bonuses, score, lives,
                       level>>]_vars

\* the game ended in a tick that began with a bonus about to reach the
\* paddle and a block standing: the bonus is where it was
C17_Witness ==
  /\ ticked /\ gameState = "gameover"
  /\ reaching(last.pre) # {} /\ bonuses = last.pre.bonuses
  /\ Len(blocks) > 0

(***************************************************************************)
(* C18.  In a tick with the balls launched that keeps the lives and the    *)
(* level, the ball pass processes every ball once: each ball of before the *)
(* tick that is still there has moved by its velocity, once, and no ball   *)
(* that is left has its lower edge below the bottom edge (y = 600).        *)
(***************************************************************************)
C18_EachBallOnce ==
  [][(plainTick /\ lives' = lives /\ ballLaunched)
     => /\ \A i \in 1..Len(balls) : \A j \in 1..Len(balls') :
             balls'[j].id = balls[i].id
             => /\ balls'[j].x = balls[i].x + balls[i].dx
                /\ balls'[j].y = balls[i].y + balls[i].dy
        /\ \A j \in 1..Len(balls') :
             balls'[j].y + 8 * SCALE <= 600 * SCALE]_vars

(***************************************************************************)
(* Vocabulary of the bonus claims.                                         *)
(***************************************************************************)
\* the bonuses of g that would reach the paddle of g if it were wide: the
\* widest the paddle can be when the tick tests them
reachingAtMost(g) ==
  reaching([g EXCEPT !.paddle.width = Max(g.paddle.width, wide)])

\* bonus i of g after its fall of one tick, 2 pixels
fallen(g, i) == [g.bonuses[i] EXCEPT !.y = g.bonuses[i].y + 2 * SCALE]

\* bonus i of g is below the bottom edge after its fall
pastBottom(g, i) == fallen(g, i).y > 600 * SCALE

\* the bonuses of g that the tick from g keeps, fallen, in their order
RECURSIVE staying(_, _)
staying(g, i) ==
  IF i > Len(g.bonuses) THEN <<>>
  ELSE IF i \in reaching(g) \/ pastBottom(g, i) THEN staying(g, i + 1)
       ELSE <<fallen(g, i)>> \o staying(g, i + 1)

\* the number of bonuses of the kind among those of g that reach the paddle
consumed(g, kind) ==
  Cardinality({i \in reaching(g) : g.bonuses[i].type = kind})

\* the number of draws of the step that give a bonus
spawnedBy(rs) == Cardinality({k \in 1..Len(rs) : kindOf(rs[k]) # "none"})

\* v multiplied by 1.5, k times
RECURSIVE boosted(_, _)
boosted(v, k) == IF k = 0 THEN v ELSE boosted(Round(3 * v, 2), k - 1)

(***************************************************************************)
(* C19, as stated.  A bonus ends in one of two ways only: on one page, a   *)
(* bonus that is not in the list after a step, fallen, either had reached  *)
(* the paddle or had passed the bottom edge.                               *)
(***************************************************************************)
C19_TwoEnds ==
  [][(bonuses' # bonuses /\ last'.op # "reload")
     => \A i \in 1..Len(bonuses) :
          (\A j \in 1..Len(bonuses') : bonuses'[j] # fallen(G, i))
          => i \in reachingAtMost(G) \/ pastBottom(G, i)]_vars

(***************************************************************************)
(* C19, amended.  In a tick that keeps the level (and in which no bonus is *)
(* beside the paddle within the reach of a widening), every bonus falls by *)
(* 2 pixels, once, and then: if its lower edge is below the paddle top and *)
(* its x strictly inside the paddle it is removed and its effect applied   *)
(* once (each multi adds two balls, each speed multiplies the speed of the *)
(* balls by 1.5 and puts the expiry 5000 ms away, a wide makes the paddle  *)
(* wide with the expiry 8000 ms away); else if it is below the bottom edge *)
(* it is removed with no effect; else it stays.  No other bonus leaves the *)
(* list, except that a level advance and a new game empty the list.        *)
(***************************************************************************)
C19_Bonus ==
  /\ [][(plainTick /\ reachingAtMost(G) = reaching(G))
        => /\ SubSeq(bonuses', 1, Len(staying(G, 1))) = staying(G, 1)
           /\ Len(bonuses') = Len(staying(G, 1)) + spawnedBy(last'.rs)
           /\ Len(balls') = Len(ballsAt(G)) + 2 * consumed(G, "multi")
           /\ lives' = lives
              => \A i \in 1..Len(balls) : \A j \in 1..Len(balls') :
                   balls'[j].id = balls[i].id
                   => Abs(balls'[j].dy)
                      = boosted(Abs(balls[i].dy), consumed(G, "speed"))
           /\ IF consumed(G, "speed") > 0
              THEN speedBoost' /\ speedBoostTimer' = 5000
              ELSE UNCHANGED <<speedBoost, speedBoostTimer>>
           /\ IF consumed(G, "wide") > 0
              THEN wideBoost' /\ wideBoostTimer' = 8000 /\ paddle'.width = wide
              ELSE UNCHANGED <<wideBoost, wideBoostTimer, paddle>>]_vars
  /\ [][(bonuses' # bonuses /\ ~plainTick)
        => bonuses' = <<>> /\ resetStep]_vars

\* a tick began with two bonuses, one of them reaching the paddle, and
\* ended with one: the one was consumed and the other fell on
C19_Witness ==
  /\ ticked /\ level = last.pre.level /\ gameState = "playing"
  /\ Len(last.pre.bonuses) = 2
  /\ Cardinality(reaching(last.pre)) = 1
  /\ Len(bonuses) = 1

(***************************************************************************)
(* Vocabulary of the paddle collision.                                     *)
(***************************************************************************)
\* ball i of g collides with the paddle in the tick from g: after its move
\* its lower edge is below the paddle top (y = 550) and its centre is
\* strictly inside the paddle
hits(g, i) ==
  /\ g.ballLaunched
  /\ g.balls[i].y + g.balls[i].dy + 8 * SCALE > 550 * SCALE
  /\ g.balls[i].x + g.balls[i].dx > g.paddle.x
  /\ g.balls[i].x + g.balls[i].dx < g.paddle.x + g.paddle.width

\* (hitFraction - 0.5) * 10 of that collision as a fraction of units: the
\* numerator over the denominator g.paddle.width
hitDx(g, i) ==
  10 * SCALE * (g.balls[i].x + g.balls[i].dx - g.paddle.x)
  - 5 * SCALE * g.paddle.width

(***************************************************************************)
(* C20.  In a tick that removes no ball and keeps lives and level, a ball  *)
(* that collides with the paddle leaves the tick with a vertical velocity  *)
(* that is upward or zero and has the magnitude it had (times 1.5 for each *)
(* speed pickup of the tick), whatever its direction was; and, when the    *)
(* tick consumes no speed pickup, with the horizontal velocity             *)
(* (hitFraction - 0.5) * 10 (to the nearest unit of the model), where      *)
(* hitFraction is strictly between 0 and 1 and so |dx| < 5.                *)
(***************************************************************************)
C20_PaddleBounce ==
  [][(plainTick /\ lives' = lives /\ crossing(G) = {}
      /\ reachingAtMost(G) = reaching(G))
     => \A i \in 1..Len(balls) :
          hits(G, i)
          => \E j \in 1..Len(balls') :
               /\ balls'[j].id = balls[i].id
               /\ balls'[j].dy <= 0
               /\ balls'[j].dy
                  = -boosted(Abs(balls[i].dy), consumed(G, "speed"))
               /\ consumed(G, "speed") = 0
                  => /\ 2 * Abs(paddle.width * balls'[j].dx - hitDx(G, i))
                        <= paddle.width
                     /\ Abs(hitDx(G, i)) < 5 * SCALE * paddle.width]_vars

\* a ball that was moving up collided with the paddle and still moves up
C20_Witness ==
  /\ ticked /\ level = last.pre.level /\ lives = last.pre.lives
  /\ crossing(last.pre) = {}
  /\ \E i \in 1..Len(last.pre.balls) :
       /\ hits(last.pre, i) /\ last.pre.balls[i].dy < 0
       /\ \E j \in 1..Len(balls) :
            balls[j].id = last.pre.balls[i].id /\ balls[j].dy < 0

(***************************************************************************)
(* Vocabulary of the block collision.                                      *)
(***************************************************************************)
\* the blocks of g that ball i of the tick from g strikes in the block
\* collision step: those it overlaps, at the place it is in after the ball
\* pass, that the balls before it have not destroyed
struckBy(g, i) ==
  {j \in 1..Len(g.blocks) :
     /\ i \in touching(g, j)
     /\ Cardinality({h \in touching(g, j) : h < i}) < g.blocks[j].health}

(***************************************************************************)
(* C21.  In a tick that keeps lives and level and consumes no speed        *)
(* pickup, a ball that strikes at least one block in the block collision   *)
(* step leaves the tick with the vertical velocity it entered the step     *)
(* with, reversed; and every block that is left has lost 1 health for each *)
(* ball that overlapped it.                                                *)
(***************************************************************************)
C21_Reflects ==
  [][(plainTick /\ lives' = lives /\ consumed(G, "speed") = 0
      /\ reachingAtMost(G) = reaching(G))
     => /\ \A i \in 1..Len(ballsAt(G)) :
             struckBy(G, i) # {} => balls'[i].dy = -ballsAt(G)[i].dy
        /\ \A j \in 1..Len(blocks) : \A k \in 1..Len(blocks') :
             (blocks'[k].x = blocks[j].x /\ blocks'[k].y = blocks[j].y)
             => blocks'[k].health
                = blocks[j].health - Cardinality(touching(G, j))]_vars

(***************************************************************************)
(* C22.  Whenever no speed boost is active, every launched ball that no    *)
(* multi pickup created (the ball of the reset, id 0) has the vertical     *)
(* speed |dy| = 4 + 0.5 * level of the launch.                             *)
(***************************************************************************)
C22_LaunchSpeed ==
  (~speedBoost /\ ballLaunched)
  => \A i \in 1..Len(balls) :
       balls[i].id = 0 => 2 * Abs(balls[i].dy) = (8 + level) * SCALE

(***************************************************************************)
(* C23.  In every state the paddle lies inside the playfield:              *)
(* 0 <= paddle.x and paddle.x + paddle.width <= 800.                       *)
(***************************************************************************)
C23_PaddleInside ==
  paddle.x >= 0 /\ paddle.x + paddle.width <= 800 * SCALE

(***************************************************************************)
(* Vocabulary of the wall reflections.                                     *)
(***************************************************************************)
\* ball i of g reflects off the right wall, the left wall, the ceiling in
\* the tick from g: after its move it reaches beyond x = 800, x = 0, y = 0
rightHit(g, i) ==
  g.ballLaunched /\ g.balls[i].x + g.balls[i].dx + 8 * SCALE > 800 * SCALE

leftHit(g, i) ==
  g.ballLaunched /\ g.balls[i].x + g.balls[i].dx - 8 * SCALE < 0

topHit(g, i) ==
  g.ballLaunched /\ g.balls[i].y + g.balls[i].dy - 8 * SCALE < 0

(***************************************************************************)
(* C24.  In a tick that removes no ball and keeps lives and level, a ball  *)
(* that reflects off a side wall leaves the tick with a horizontal         *)
(* velocity that points into the playfield, and a ball that reflects off   *)
(* the ceiling with a vertical velocity that points down; and no ball      *)
(* reflects off the same wall in two ticks that follow each other.         *)
(***************************************************************************)
C24_WallReflection ==
  [][(plainTick /\ lives' = lives /\ crossing(G) = {})
     => \A i \in 1..Len(balls) : \A j \in 1..Len(balls') :
          balls'[j].id = balls[i].id
          => /\ rightHit(G, i) => balls'[j].dx < 0
             /\ leftHit(G, i) => balls'[j].dx > 0
             /\ topHit(G, i) => balls'[j].dy > 0
             /\ last.op = "tick" /\ last.pre.level = level
                => \A h \in 1..Len(last.pre.balls) :
                     last.pre.balls[h].id = balls[i].id
                     => /\ ~(rightHit(last.pre, h) /\ rightHit(G, i))
                        /\ ~(leftHit(last.pre, h) /\ leftHit(G, i))
                        /\ ~(topHit(last.pre, h) /\ topHit(G, i))]_vars

(***************************************************************************)
(* C25.  Between the steps of a game in the playing phase there is always  *)
(* a ball and a block.  A tick whose ball pass keeps no ball ends the game  *)
(* or leaves the ball unlaunched, with the new ball of the reset first and *)
(* every ball at rest at (400, 450) (a multi bonus caught in the same tick *)
(* copies the new ball), and a tick that destroys the last block leaves    *)
(* the full grid of the next level.                                        *)
(***************************************************************************)
C25_NonEmpty ==
  /\ gameState = "playing" => Len(balls) > 0 /\ Len(blocks) > 0
  /\ (ticked /\ passed(last.pre) = <<>>)
     => \/ gameState = "gameover"
        \/ /\ gameState = "playing" /\ ~ballLaunched
           /\ Len(balls) >= 1 /\ balls[1].id = 0
           /\ \A i \in 1..Len(balls) :
                /\ balls[i].x = 400 * SCALE /\ balls[i].y = 450 * SCALE
                /\ balls[i].dx = 0 /\ balls[i].dy = 0
  /\ (ticked /\ gameState # "gameover"
        /\ destroyedBy(last.pre) = 1..Len(last.pre.blocks))
     => /\ gameState = "playing" /\ level = last.pre.level + 1
        /\ fullGrid(blocks, IF level < 3 THEN level ELSE 3)

\* a tick lost the only ball, kept the game going and put a new ball
C25_Witness ==
  /\ ticked /\ passed(last.pre) = <<>> /\ gameState = "playing"
  /\ last.pre.ballLaunched /\ Len(balls) = 1 /\ lives = last.pre.lives - 1

(***************************************************************************)
(* C26.  Lives are always in 0..3, and in 1..3 while the game is playing   *)
(* or paused.  Lives are 0 only when the game is over or in the menu, and  *)
(* they become 0 only in the tick that ends the game: the menu with 0      *)
(* lives comes after a game-over.                                          *)
(***************************************************************************)
C26_LivesRange ==
  /\ [](lives \in 0..3)
  /\ [](gameState \in {"playing", "paused"} => lives \in 1..3)
  /\ [](lives = 0 => gameState \in {"gameover", "menu"})
  /\ [][(lives # 0 /\ lives' = 0)
        => last'.op = "tick" /\ gameState' = "gameover"]_vars
  /\ [][(lives' = 0 /\ gameState' = "menu" /\ gameState # "menu")
        => gameState = "gameover" /\ lives = 0]_vars

\* the game was left for the menu after the tick that took the last life
C26_Witness ==
  gameState = "menu" /\ lives = 0 /\ score > 0 /\ balls = <<>>
====
